---- MODULE Spec2Model ----
(***************************************************************************)
(* Plottable.Scale.ModifiedLog (src/src/scales/modifiedLogScale.ts).       *)
(*                                                                         *)
(* Numbers are exact rationals <<n, d>> (d > 0, lowest terms).  A value in *)
(* the transformed ("logged") space is kept as [lg |-> q], standing for    *)
(* the real number log_base(q) of the scale that produced it, so that      *)
(* Math.log(x)/Math.log(base), Math.pow(base, y), Math.floor and Math.ceil *)
(* of such values are computed exactly.  A value in the output range of   *)
(* the d3 linear scale is kept as [p |-> P, q |-> Q], standing for         *)
(* log(P)/log(Q).  Floating-point rounding is not modelled.                *)
(***************************************************************************)
EXTENDS Integers, Sequences, FiniteSets, TLC

VARIABLES
  scales,    \* the ModifiedLog objects, in order of construction
  heap,      \* the d3 linear scales, addressed by scales[i].d3Scale
  history,   \* per scale: what it was copied from, the last setDomain argument
  op,        \* the last operation called: [name, target, arg]
  result,    \* what that operation returned (or threw)
  notified,  \* what each broadcast of that operation showed its observers
  calls      \* the howManyTicks and logTicks calls that operation made

vars == <<scales, heap, history, op, result, notified, calls>>

(* ------------------------------ bounds --------------------------------- *)
MaxScales == 2
MaxCount == 4

(* ------------------------- rational arithmetic ------------------------- *)
Abs(n) == IF n < 0 THEN -n ELSE n

RECURSIVE GCD(_, _)
GCD(a, b) == IF b = 0 THEN a ELSE GCD(b, a % b)

Rat(n, d) ==
  LET s == IF d < 0 THEN -1 ELSE 1
      g == GCD(Abs(n), Abs(d))
  IN  <<(s * n) \div g, (s * d) \div g>>

R(n) == <<n, 1>>
RAdd(a, b) == Rat(a[1] * b[2] + b[1] * a[2], a[2] * b[2])
RSub(a, b) == Rat(a[1] * b[2] - b[1] * a[2], a[2] * b[2])
RMul(a, b) == Rat(a[1] * b[1], a[2] * b[2])
RDiv(a, b) == Rat(a[1] * b[2], a[2] * b[1])
RNeg(a) == <<-a[1], a[2]>>
RLt(a, b) == a[1] * b[2] < b[1] * a[2]
RLe(a, b) == a[1] * b[2] <= b[1] * a[2]
RFloor(a) == a[1] \div a[2]
RCeil(a) == -((-a[1]) \div a[2])
RMin(a, b) == IF RLt(b, a) THEN b ELSE a
RMax(a, b) == IF RLt(a, b) THEN b ELSE a

RECURSIVE RPow(_, _)
RPow(b, e) ==
  IF e = 0 THEN R(1)
  ELSE IF e < 0 THEN RDiv(R(1), RPow(b, -e))
  ELSE RMul(b, RPow(b, e - 1))

(* ----------------------- values in logged space ------------------------ *)
Lg(q) == [lg |-> q]
LgZero == Lg(R(1))
LgNeg(y) == Lg(RDiv(R(1), y.lg))
LgSub(a, b) == Lg(RDiv(a.lg, b.lg))
LgIsNegative(y) == RLt(y.lg, R(1))

(* Math.log(x) / Math.log(base), for x > 0 *)
LogBase(x) == Lg(x)
(* Math.pow(base, y), for y in logged space *)
PowBase(y) == y.lg

(* An integer-valued JavaScript number that may also be NaN or Infinity *)
Finite(k) == [kind |-> "finite", n |-> k]
NaN == [kind |-> "NaN", n |-> 0]
Infinity == [kind |-> "Infinity", n |-> 0]
IsFinite(v) == v.kind = "finite"

(* ------------------------------ constants ------------------------------ *)
DefaultTickCount == 10
DefaultBase == <<10, 1>>
InvalidParameter == "ModifiedLogScale: The base must be > 1"
(* Abstract.QuantitiveScale._defaultExtent() *)
defaultExtent == <<R(0), R(1)>>

(* ------------------------------ transform ------------------------------ *)
adjustedLog(s, x) ==
  LET negative == RLt(x, R(0))
      x1 == IF negative THEN RNeg(x) ELSE x
      x2 == IF RLt(x1, s.pivot)
              THEN RAdd(x1, RDiv(RSub(s.pivot, x1), s.pivot))
              ELSE x1
      x3 == LogBase(x2)
  IN  IF negative THEN LgNeg(x3) ELSE x3

invertedAdjustedLogWithoutBlend(s, y) ==
  LET negative == LgIsNegative(y)
      y1 == IF negative THEN LgNeg(y) ELSE y
      x2 == PowBase(y1)
  IN  IF negative THEN RNeg(x2) ELSE x2

invertedAdjustedLog(s, y) ==
  LET negative == LgIsNegative(y)
      y1 == IF negative THEN LgNeg(y) ELSE y
      x2 == PowBase(y1)
      x3 == IF RLt(x2, s.pivot)
              THEN RDiv(RMul(s.pivot, RSub(x2, R(1))), RSub(s.pivot, R(1)))
              ELSE x2
  IN  IF negative THEN RNeg(x3) ELSE x3

(* ------------------- the d3 linear scale (range [0, 1]) --------------- *)
(* d3.scale.linear(): domain [0, 1], i.e. [log_base(1), log_base(base)] *)
d3ScaleLinear(base) == [domain |-> <<LgZero, Lg(base)>>]

(* d3_uninterpolateNumber(d0, d1)(y) = (y - d0) / ((d1 - d0) || 1 / 0):    *)
(* a zero-width domain maps every y to 0.                                  *)
d3Apply(d, y) ==
  LET width == LgSub(d.domain[2], d.domain[1])
  IN  IF width = LgZero THEN [p |-> R(1), q |-> width.lg]
      ELSE [p |-> LgSub(y, d.domain[1]).lg, q |-> width.lg]

(* d3_interpolateNumber(d0, d1)(r) = d0 + (d1 - d0) * r *)
d3Invertible(d, r) ==
  LET width == LgSub(d.domain[2], d.domain[1])
  IN  width = LgZero \/ r.p = R(1) \/ r.q = width.lg

d3Invert(d, r) ==
  LET width == LgSub(d.domain[2], d.domain[1])
  IN  IF width = LgZero \/ r.p = R(1) THEN d.domain[1]
      ELSE Lg(RMul(d.domain[1].lg, r.p))

RangeIsZero(r) == r.p = R(1)

d3ScaleOf(w, i) == w.heap[w.scales[i].d3Scale]

scale(w, i, x) == d3Apply(d3ScaleOf(w, i), adjustedLog(w.scales[i], x))

invert(w, i, r) == invertedAdjustedLog(w.scales[i], d3Invert(d3ScaleOf(w, i), r))

getDomain(s) == s.untransformedDomain

(* ------------------------------ sequences ------------------------------ *)
RECURSIVE Reverse(_)
Reverse(q) == IF q = <<>> THEN <<>> ELSE Append(Reverse(Tail(q)), Head(q))

RECURSIVE InsertSorted(_, _)
InsertSorted(x, q) ==
  IF q = <<>> THEN <<x>>
  ELSE IF RLe(x, Head(q)) THEN <<x>> \o q
  ELSE <<Head(q)>> \o InsertSorted(x, Tail(q))

(* Array.prototype.sort((x, y) => x - y) *)
RECURSIVE SortAscending(_)
SortAscending(q) ==
  IF q = <<>> THEN <<>> ELSE InsertSorted(Head(q), SortAscending(Tail(q)))

InSeq(x, q) == \E i \in 1 .. Len(q) : q[i] = x

(* Util.Methods.uniqNumbers: drop repeats, keep first occurrences in order *)
RECURSIVE uniqNumbersFrom(_, _)
uniqNumbersFrom(q, seen) ==
  IF q = <<>> THEN seen
  ELSE uniqNumbersFrom(Tail(q),
         IF InSeq(Head(q), seen) THEN seen ELSE Append(seen, Head(q)))

uniqNumbers(q) == uniqNumbersFrom(q, <<>>)

(* Util.Methods.flatten: concatenate a sequence of sequences *)
RECURSIVE flatten(_)
flatten(qq) == IF qq = <<>> THEN <<>> ELSE Head(qq) \o flatten(Tail(qq))

(* d3.range(start, stop, step) on rationals, step # 0 *)
RECURSIVE d3Range(_, _, _)
d3Range(start, stop, step) ==
  IF RLt(step, R(0))
    THEN IF RLt(stop, start)
           THEN <<start>> \o d3Range(RAdd(start, step), stop, step)
           ELSE <<>>
    ELSE IF RLt(start, stop)
           THEN <<start>> \o d3Range(RAdd(start, step), stop, step)
           ELSE <<>>

(* Math.floor(Math.log(x) / Math.log(b)) for x > 0, b > 1 *)
RECURSIVE FloorLog(_, _, _)
FloorLog(b, x, e) ==
  IF RLt(x, RPow(b, e)) THEN FloorLog(b, x, e - 1)
  ELSE IF RLe(RPow(b, e + 1), x) THEN FloorLog(b, x, e + 1)
  ELSE e

(* Math.ceil(Math.log(x) / Math.log(b)) for x > 0, b > 1 *)
RECURSIVE CeilLog(_, _, _)
CeilLog(b, x, e) ==
  IF RLt(RPow(b, e), x) THEN CeilLog(b, x, e + 1)
  ELSE IF RLe(x, RPow(b, e - 1)) THEN CeilLog(b, x, e - 1)
  ELSE e

(* Math.ceil(n * log(P) / log(Q)) for P >= 1, Q > 1, n >= 0: the least k   *)
(* with P^n <= Q^k.  r = P^a / Q^k is kept in (1/Q, P].                    *)
RECURSIVE CeilTimesLogRatio(_, _, _, _, _)
CeilTimesLogRatio(P, Q, r, a, k) ==
  IF a > 0 /\ RLe(r, R(1)) THEN CeilTimesLogRatio(P, Q, RMul(r, P), a - 1, k)
  ELSE IF RLt(R(1), r) THEN CeilTimesLogRatio(P, Q, RDiv(r, Q), a, k + 1)
  ELSE k

(* ---------------------------- tick generator --------------------------- *)
(* [x, y, z].sort((a, b) => a - b)[1] *)
middle(x, y, z) == SortAscending(<<x, y, z>>)[2]

d3Min(d) == RMin(d[1], d[2])
d3Max(d) == RMax(d[1], d[2])

(* Callers pass lower <= upper, so the proportion is never negative. *)
howManyTicks(s, lower, upper) ==
  LET adjustedMin == adjustedLog(s, d3Min(s.untransformedDomain))
      adjustedMax == adjustedLog(s, d3Max(s.untransformedDomain))
      adjustedLower == adjustedLog(s, lower)
      adjustedUpper == adjustedLog(s, upper)
      numerator == LgSub(adjustedUpper, adjustedLower)
      denominator == LgSub(adjustedMax, adjustedMin)
      n == s.lastRequestedTickCount
  IN  IF denominator = LgZero
        THEN (* x / 0: NaN for 0 / 0 and for Infinity * 0 *)
             IF numerator = LgZero \/ n = 0 THEN NaN ELSE Infinity
      ELSE Finite(CeilTimesLogRatio(numerator.lg, denominator.lg, R(1), n, 0))

RECURSIVE MapFloor(_)
MapFloor(q) ==
  IF q = <<>> THEN <<>> ELSE <<R(RFloor(Head(q)))>> \o MapFloor(Tail(q))

RECURSIVE MapNeg(_)
MapNeg(q) == IF q = <<>> THEN <<>> ELSE <<RNeg(Head(q))>> \o MapNeg(Tail(q))

RECURSIVE MapTimes(_, _)
MapTimes(c, q) ==
  IF q = <<>> THEN <<>> ELSE <<RMul(c, Head(q))>> \o MapTimes(c, Tail(q))

RECURSIVE MapClusters(_, _, _)
MapClusters(base, bases, uniqMultiples) ==
  IF bases = <<>> THEN <<>>
  ELSE <<MapTimes(RPow(base, RFloor(Head(bases)) - 1), uniqMultiples)>>
       \o MapClusters(base, Tail(bases), uniqMultiples)

RECURSIVE FilterBetween(_, _, _)
FilterBetween(q, lower, upper) ==
  IF q = <<>> THEN <<>>
  ELSE (IF RLe(lower, Head(q)) /\ RLe(Head(q), upper) THEN <<Head(q)>> ELSE <<>>)
       \o FilterBetween(Tail(q), lower, upper)

nMultiplesOfCeil(nTicks, nBases) == RCeil(Rat(nTicks, nBases))

(* Math.floor(nTicks / bases.length) *)
nMultiplesOf(nTicks, nBases) == nTicks \div nBases

(* nTicks = NaN (zero-width domain): the step of d3.range is NaN, every    *)
(* comparison in d3.range is false, bases and multiples are [] and so is   *)
(* the result.  howManyTicks is Infinity only for lower # upper in a       *)
(* zero-width domain, which ticks() never asks for.                        *)
logTicksFor(s, lower, upper, ticks) ==
  LET nTicks == ticks.n
  IN  IF ticks = Finite(0) THEN <<>>
      ELSE IF ~IsFinite(ticks) THEN <<>>
      ELSE
        LET startLogged == FloorLog(s.base, lower, 0)
            endLogged == CeilLog(s.base, upper, 0)
            bases == d3Range(R(endLogged), R(startLogged),
                       R(-RCeil(Rat(endLogged - startLogged, nTicks))))
            nMultiples == nMultiplesOf(nTicks, Len(bases))
            multiples == MapFloor(d3Range(s.base, R(1),
                           RNeg(RDiv(RSub(s.base, R(1)), R(nMultiples)))))
            uniqMultiples == uniqNumbers(multiples)
            clusters == MapClusters(s.base, bases, uniqMultiples)
            flattened == flatten(clusters)
            filtered == FilterBetween(flattened, lower, upper)
            sorted == SortAscending(filtered)
        IN  sorted

logTicks(s, lower, upper) ==
  logTicksFor(s, lower, upper, howManyTicks(s, lower, upper))

(* d3_scale_linearTickRange / d3_scale_linearTicks of d3 v3, for the domain *)
(* [a, b] and m ticks.  m = NaN, m = 0 or a zero span make the step NaN,   *)
(* Infinity or 0 and the tick range NaN, so d3.range returns [].           *)
d3LinearTicks(a, b, m) ==
  LET lo == RMin(a, b)
      hi == RMax(a, b)
      span == RSub(hi, lo)
  IN  IF ~IsFinite(m) \/ m.n <= 0 \/ span = R(0) THEN <<>>
      ELSE
        LET step0 == RPow(R(10), FloorLog(R(10), RDiv(span, R(m.n)), 0))
            err == RMul(RDiv(R(m.n), span), step0)
            step == IF RLe(err, <<3, 20>>) THEN RMul(step0, R(10))
                    ELSE IF RLe(err, <<7, 20>>) THEN RMul(step0, R(5))
                    ELSE IF RLe(err, <<3, 4>>) THEN RMul(step0, R(2))
                    ELSE step0
            first == RMul(R(RCeil(RDiv(lo, step))), step)
            last == RAdd(RMul(R(RFloor(RDiv(hi, step))), step),
                         RDiv(step, R(2)))
        IN  d3Range(first, last, step)

ticksSegments(s) ==
  LET min == d3Min(s.untransformedDomain)
      max == d3Max(s.untransformedDomain)
  IN  [negativeLower |-> min,
       negativeUpper |-> middle(min, max, RNeg(s.pivot)),
       positiveLower |-> middle(min, max, s.pivot),
       positiveUpper |-> max]

concatTicksPositiveFirst(negativeLogTicks, linearTicks, positiveLogTicks) ==
  positiveLogTicks \o linearTicks \o negativeLogTicks

concatTicks(negativeLogTicks, linearTicks, positiveLogTicks) ==
  negativeLogTicks \o linearTicks \o positiveLogTicks

(* The calls ticks() makes to the two private methods, with what they return *)
ticksCall(s, fn, lower, upper) ==
  LET count == howManyTicks(s, lower, upper)
  IN  [fn |-> fn, lower |-> lower, upper |-> upper, count |-> count,
       ret |-> IF fn = "logTicks" THEN logTicksFor(s, lower, upper, count)
               ELSE <<>>]

ticksCalls(s) ==
  LET g == ticksSegments(s)
  IN  << ticksCall(s, "logTicks", RNeg(g.negativeUpper), RNeg(g.negativeLower)),
         ticksCall(s, "logTicks", g.positiveLower, g.positiveUpper),
         ticksCall(s, "howManyTicks", g.negativeUpper, g.positiveLower) >>

ticksFrom(s, c) ==
  LET g == ticksSegments(s)
      negativeLogTicks == Reverse(MapNeg(c[1].ret))
      positiveLogTicks == c[2].ret
      linearTicks == d3LinearTicks(g.negativeUpper, g.positiveLower, c[3].count)
  IN  concatTicks(negativeLogTicks, linearTicks, positiveLogTicks)

ticksOf(s) == ticksFrom(s, ticksCalls(s))

(* ------------------------------ operations ----------------------------- *)
World == [scales |-> scales, heap |-> heap, notified |-> <<>>]

constructThrowsBelowOne(base) == RLt(base, R(1))

constructThrows(base) == RLe(base, R(1))

construct(w, base) ==
  [w EXCEPT
     !.heap = Append(@, d3ScaleLinear(base)),
     !.scales = Append(@, [base |-> base,
                           pivot |-> base,
                           untransformedDomain |-> defaultExtent,
                           lastRequestedTickCount |-> DefaultTickCount,
                           d3Scale |-> Len(w.heap) + 1])]

storeDomainSorted(w, i, values) ==
  [w EXCEPT !.scales[i].untransformedDomain = <<d3Min(values), d3Max(values)>>]

storeDomain(w, i, values) ==
  [w EXCEPT !.scales[i].untransformedDomain = values]

transformDomain(w, i, values) ==
  [w EXCEPT !.heap[w.scales[i].d3Scale].domain =
              <<adjustedLog(w.scales[i], values[1]),
                adjustedLog(w.scales[i], values[2])>>]

(* this.broadcaster.broadcast(): every observer runs now, and sees this *)
broadcast(w, i) ==
  [w EXCEPT !.notified = Append(@, [target |-> i,
                                    domain |-> getDomain(w.scales[i]),
                                    d3Domain |-> d3ScaleOf(w, i).domain])]

setDomainBroadcastFirst(w, i, values) ==
  transformDomain(storeDomain(broadcast(w, i), i, values), i, values)

setDomain(w, i, values) ==
  broadcast(transformDomain(storeDomain(w, i, values), i, values), i)

(* Abstract.QuantitiveScale.ticks(count): remembers the requested count *)
superTicks(w, i, count) ==
  [w EXCEPT !.scales[i].lastRequestedTickCount = count]

copySharingAdapter(w, i) ==
  [w EXCEPT !.scales = Append(@, [base |-> w.scales[i].base,
                                  pivot |-> w.scales[i].base,
                                  untransformedDomain |-> defaultExtent,
                                  lastRequestedTickCount |-> DefaultTickCount,
                                  d3Scale |-> w.scales[i].d3Scale])]

copy(w, i) == construct(w, w.scales[i].base)

Given(v) == [given |-> TRUE, value |-> v]
NotGiven == [given |-> FALSE, value |-> 0]

Commit(w) ==
  /\ scales' = w.scales
  /\ heap' = w.heap
  /\ notified' = w.notified

(* new ModifiedLog(base) / new ModifiedLog() *)
Construct(arg) ==
  LET base == IF arg.given THEN arg.value ELSE DefaultBase
  IN  /\ op' = [name |-> "construct", target |-> 0, arg |-> arg]
      /\ calls' = <<>>
      /\ IF constructThrows(base)
           THEN /\ result' = [ok |-> FALSE, value |-> InvalidParameter]
                /\ Commit(World)
                /\ UNCHANGED history
           ELSE /\ Len(scales) < MaxScales
                /\ result' = [ok |-> TRUE, value |-> Len(scales) + 1]
                /\ Commit(construct(World, base))
                /\ history' = Append(history,
                     [origin |-> 0, set |-> FALSE, values |-> defaultExtent])

SetDomain(i, values) ==
  /\ i \in 1 .. Len(scales)
  /\ op' = [name |-> "setDomain", target |-> i, arg |-> values]
  /\ Commit(setDomain(World, i, values))
  /\ result' = i
  /\ calls' = <<>>
  /\ history' = [history EXCEPT ![i].set = TRUE, ![i].values = values]

GetDomain(i) ==
  /\ i \in 1 .. Len(scales)
  /\ op' = [name |-> "getDomain", target |-> i, arg |-> 0]
  /\ Commit(World)
  /\ result' = getDomain(scales[i])
  /\ calls' = <<>>
  /\ UNCHANGED history

Scale(i, x) ==
  /\ i \in 1 .. Len(scales)
  /\ op' = [name |-> "scale", target |-> i, arg |-> x]
  /\ Commit(World)
  /\ result' = scale(World, i, x)
  /\ calls' = <<>>
  /\ UNCHANGED history

Invert(i, r) ==
  /\ i \in 1 .. Len(scales)
  /\ d3Invertible(d3ScaleOf(World, i), r)
  /\ op' = [name |-> "invert", target |-> i, arg |-> r]
  /\ Commit(World)
  /\ result' = invert(World, i, r)
  /\ calls' = <<>>
  /\ UNCHANGED history

Ticks(i, count) ==
  /\ i \in 1 .. Len(scales)
  /\ LET w == IF count.given THEN superTicks(World, i, count.value) ELSE World
     IN  /\ op' = [name |-> "ticks", target |-> i, arg |-> count]
         /\ Commit(w)
         /\ calls' = ticksCalls(w.scales[i])
         /\ result' = ticksFrom(w.scales[i], calls')
  /\ UNCHANGED history

Copy(i) ==
  /\ i \in 1 .. Len(scales)
  /\ Len(scales) < MaxScales
  /\ op' = [name |-> "copy", target |-> i, arg |-> 0]
  /\ Commit(copy(World, i))
  /\ result' = Len(scales) + 1
  /\ calls' = <<>>
  /\ history' = Append(history,
       [origin |-> i, set |-> FALSE, values |-> defaultExtent])

(* ------------------- the life of several scales ------------------------ *)
BaseArgs == {Given(<<1, 2>>), Given(R(1)), Given(R(2)), NotGiven}
LifeDomains == {<<R(8), R(-2)>>}
LifeXValues == {R(0)}
LifeCounts == {Given(3)}

Init ==
  /\ scales = <<>>
  /\ heap = <<>>
  /\ history = <<>>
  /\ op = [name |-> "none", target |-> 0, arg |-> 0]
  /\ result = 0
  /\ notified = <<>>
  /\ calls = <<>>

Next ==
  \/ \E arg \in BaseArgs : Construct(arg)
  \/ \E i \in 1 .. MaxScales, values \in LifeDomains : SetDomain(i, values)
  \/ \E i \in 1 .. MaxScales : GetDomain(i)
  \/ \E i \in 1 .. MaxScales, x \in LifeXValues : Scale(i, x)
  \/ \E i \in 1 .. MaxScales, x \in LifeXValues :
       i \in 1 .. Len(scales) /\ Invert(i, scale(World, i, x))
  \/ \E i \in 1 .. MaxScales, count \in LifeCounts : Ticks(i, count)
  \/ \E i \in 1 .. MaxScales : Copy(i)

Spec == Init /\ [][Next]_vars

(* ------------------- one scale, over many inputs ----------------------- *)
Bases == {R(2), R(10)}
XValues == {R(-8), R(-2), R(-1), R(0), R(1), R(2), R(8)}
Domains == (XValues \X XValues) \cup
           {<<R(10), R(100)>>, <<R(-100), R(100)>>, <<R(100), R(0)>>}
Counts == {Given(n) : n \in 0 .. MaxCount} \cup {NotGiven}

InitOne ==
  \E base \in Bases :
    LET w == construct([scales |-> <<>>, heap |-> <<>>, notified |-> <<>>], base)
    IN  /\ scales = w.scales
        /\ heap = w.heap
        /\ history = <<[origin |-> 0, set |-> FALSE, values |-> defaultExtent]>>
        /\ op = [name |-> "construct", target |-> 0, arg |-> Given(base)]
        /\ result = [ok |-> TRUE, value |-> 1]
        /\ notified = w.notified
        /\ calls = <<>>

NextOne ==
  \/ \E values \in Domains : SetDomain(1, values)
  \/ GetDomain(1)
  \/ \E x \in XValues : Scale(1, x)
  \/ \E x \in XValues : Invert(1, scale(World, 1, x))
  \/ \E count \in Counts : Ticks(1, count)

SpecOne == InitOne /\ [][NextOne]_vars

(* ------------------------------- claims -------------------------------- *)
BaseOf(arg) == IF arg.given THEN arg.value ELSE DefaultBase
Unchanged(j) ==
  /\ scales'[j] = scales[j]
  /\ heap'[scales'[j].d3Scale] = heap[scales[j].d3Scale]
DomainMin(i) == d3Min(scales[i].untransformedDomain)
DomainMax(i) == d3Max(scales[i].untransformedDomain)

(* C1: a construction with base <= 1 throws the InvalidParameter error and *)
(* leaves no scale behind; a construction with base > 1 (the default 10    *)
(* included) returns a new scale of that base.                             *)
C1_ConstructFailsIffBaseAtMostOne ==
  [][op'.name = "construct" =>
       IF RLe(BaseOf(op'.arg), R(1))
         THEN /\ ~result'.ok
              /\ result'.value = InvalidParameter
              /\ scales' = scales
              /\ heap' = heap
         ELSE /\ result'.ok
              /\ Len(scales') = Len(scales) + 1
              /\ result'.value = Len(scales')
              /\ scales'[Len(scales')].base = BaseOf(op'.arg)]_vars

C1_Witness ==
  /\ op.name = "construct"
  /\ op.arg = Given(R(1))
  /\ ~result.ok
  /\ \E i \in 1 .. Len(scales) : scales[i].base = DefaultBase

(* C2: once setDomain has been called on a scale, getDomain returns the    *)
(* pair of the most recent call in the order given, and the d3 scale's     *)
(* domain is [adjustedLog(values[0]), adjustedLog(values[1])] of that pair *)
C2_GetDomainIsLastSetDomain ==
  /\ \A i \in 1 .. Len(scales) :
       history[i].set =>
         /\ getDomain(scales[i]) = history[i].values
         /\ d3ScaleOf(World, i).domain =
              <<adjustedLog(scales[i], history[i].values[1]),
                adjustedLog(scales[i], history[i].values[2])>>
  /\ (op.name = "getDomain" /\ history[op.target].set)
       => result = history[op.target].values

C2_Witness ==
  /\ op.name = "getDomain"
  /\ history[op.target].set
  /\ result = <<R(8), R(-2)>>
  /\ scales[op.target].lastRequestedTickCount # DefaultTickCount

(* C3: setDomain broadcasts exactly once, and the observers then see the   *)
(* new domain both in getDomain and in the d3 scale; scale, invert,        *)
(* getDomain, ticks and copy broadcast nothing.                            *)
C3_SetDomainNotifiesOnceAfterUpdate ==
  /\ op.name = "setDomain" =>
       /\ Len(notified) = 1
       /\ notified[1].target = op.target
       /\ notified[1].domain = op.arg
       /\ notified[1].d3Domain =
            <<adjustedLog(scales[op.target], op.arg[1]),
              adjustedLog(scales[op.target], op.arg[2])>>
  /\ op.name \in {"scale", "invert", "getDomain", "ticks", "copy"} =>
       notified = <<>>

C3_Witness ==
  /\ op.name = "setDomain"
  /\ op.arg = <<R(8), R(-2)>>
  /\ Len(notified) = 1
  /\ scales[op.target].base = R(2)

(* C4: copy() returns a new scale of the same base with the default domain, *)
(* the default tick count and a d3 scale of its own, and changes no        *)
(* existing scale; setDomain and ticks(count) on one scale change no other *)
(* scale's domain, d3 domain or tick count.                                *)
C4_CopyIsColdAndIndependent ==
  [][/\ op'.name = "copy" =>
          LET n == Len(scales')
          IN  /\ n = Len(scales) + 1
              /\ scales'[n].base = scales[op'.target].base
              /\ scales'[n].untransformedDomain = defaultExtent
              /\ scales'[n].lastRequestedTickCount = DefaultTickCount
              /\ heap'[scales'[n].d3Scale] = d3ScaleLinear(scales'[n].base)
              /\ \A j \in 1 .. Len(scales) : Unchanged(j)
     /\ op'.name \in {"setDomain", "ticks"} =>
          \A j \in (1 .. Len(scales)) \ {op'.target} : Unchanged(j)]_vars

C4_Witness ==
  \E j \in 1 .. Len(scales) :
    /\ history[j].origin # 0
    /\ op.name = "setDomain"
    /\ op.target = history[j].origin
    /\ scales[j].base = R(2)
    /\ scales[j].untransformedDomain = defaultExtent
    /\ scales[op.target].lastRequestedTickCount # DefaultTickCount

(* C5, as amended: while the two ends of the domain differ,                *)
(* invert(scale(x)) = x for every x, of either sign and on either side of  *)
(* the pivot.                                                              *)
C5_RoundTripOnProperDomain ==
  (/\ op.name = "invert"
   /\ d3ScaleOf(World, 1).domain[1] # d3ScaleOf(World, 1).domain[2])
    => \A x \in XValues : scale(World, 1, x) = op.arg => result = x

C5_Witness ==
  /\ op.name = "invert"
  /\ history[1].set
  /\ scales[1].untransformedDomain = <<R(8), R(-2)>>
  /\ result = R(-1)
  /\ scale(World, 1, R(-1)) = op.arg

(* C5, as stated: invert(scale(x)) = x for every x, in every state.        *)
C5_RoundTripAlways ==
  op.name = "invert"
    => \A x \in XValues : scale(World, 1, x) = op.arg => result = x

(* C6, as stated: scale(0) is 0 in every state of the scale.               *)
C6_ScaleOfZeroIsZero ==
  (op.name = "scale" /\ op.arg = R(0)) => RangeIsZero(result)

(* C7: ticks() returns a non-decreasing sequence, all of it between the    *)
(* least and the greatest end of the domain.                               *)
C7_TicksAscendingWithinDomain ==
  op.name = "ticks" =>
    \A k \in 1 .. Len(result) :
      /\ k < Len(result) => RLe(result[k], result[k + 1])
      /\ RLe(DomainMin(1), result[k])
      /\ RLe(result[k], DomainMax(1))

C7_Witness ==
  /\ op.name = "ticks"
  /\ scales[1].untransformedDomain = <<R(8), R(-8)>>
  /\ scales[1].base = R(2)
  /\ calls[1].ret # <<>>
  /\ calls[2].ret # <<>>
  /\ Len(result) > Len(calls[1].ret) + Len(calls[2].ret)

(* C8, as amended: for a domain that lies wholly at or beyond the pivot on *)
(* one side of zero, ticks(n) returns at most n ticks.                     *)
C8_LogOnlyTicksAtMostRequested ==
  (/\ op.name = "ticks"
   /\ \/ RLe(scales[1].pivot, DomainMin(1))
      \/ RLe(DomainMax(1), RNeg(scales[1].pivot)))
    => Len(result) <= scales[1].lastRequestedTickCount

C8_Witness ==
  /\ op.name = "ticks"
  /\ RLe(scales[1].pivot, DomainMin(1))
  /\ RLt(DomainMin(1), DomainMax(1))
  /\ Len(result) = scales[1].lastRequestedTickCount
  /\ Len(result) > 2

(* C8, as stated: for a domain that does not cross zero, the number of     *)
(* ticks returned differs from the requested count by at most 1.           *)
C8_TickCountWithinOne ==
  (/\ op.name = "ticks"
   /\ \/ RLe(R(0), DomainMin(1))
      \/ RLe(DomainMax(1), R(0)))
    => Abs(Len(result) - scales[1].lastRequestedTickCount) <= 1

(* C9, as stated: logTicks over a strictly positive [lower, upper] returns *)
(* only values of [lower, upper], and no value twice.                      *)
C9_LogTicksWithinAndDistinct ==
  \A c \in 1 .. Len(calls) :
    (calls[c].fn = "logTicks" /\ RLt(R(0), calls[c].lower)) =>
      LET ret == calls[c].ret
      IN  /\ \A k \in 1 .. Len(ret) :
                RLe(calls[c].lower, ret[k]) /\ RLe(ret[k], calls[c].upper)
          /\ \A k, l \in 1 .. Len(ret) : k # l => ret[k] # ret[l]

(* C10, as stated: on a zero-width domain howManyTicks returns a finite    *)
(* count, and ticks() returns finite numbers only.                         *)
C10_ZeroWidthTicksDefined ==
  (/\ op.name = "ticks"
   /\ scales[1].untransformedDomain[1] = scales[1].untransformedDomain[2])
    => /\ \A c \in 1 .. Len(calls) : IsFinite(calls[c].count)
       /\ \A k \in 1 .. Len(result) : result[k][2] > 0

====
